---- MODULE Spec2Model ----
(***************************************************************************)
(* EndpointLocation: a validated URL value object.                         *)
(*                                                                         *)
(* The repository holds two listings of the class: version 1.0.0 in        *)
(* src/src/EndpointLocatoin.js and version 1.1.0 in src/README.md.  Both   *)
(* are modelled; the variable `version` says which listing an execution    *)
(* runs.  JavaScript strings are sequences of one-character strings, and   *)
(* the other JavaScript values the operations meet (undefined, null,       *)
(* numbers) are tagged records.                                            *)
(***************************************************************************)
EXTENDS Integers, Sequences, FiniteSets, TLC

VARIABLES version, inst, heap, cfg, last

vars == <<version, inst, heap, cfg, last>>

(***************************************************************************)
(* JavaScript values and strings                                           *)
(***************************************************************************)
\* A primitive string value.
Str(s) == [t |-> "string", s |-> s]
\* A number value, held by the text Number.prototype.toString gives for it.
NumV(s) == [t |-> "number", s |-> s]
Undefined == [t |-> "undefined", s |-> <<>>]
Null == [t |-> "null", s |-> <<>>]

Digits == {"0", "1", "2", "3", "4", "5", "6", "7", "8", "9"}

\* typeof( value ) === 'string' || value instanceof String
IsString(v) == v.t = "string"

\* typeof( value ) === 'number' || value instanceof Number
IsNumber(v) == v.t = "number"

\* ToBoolean: what `value || other` and `!!value` test.
Truthy(v) ==
    CASE v.t = "string" -> v.s # <<>>
      [] v.t = "number" -> v.s \notin {<<"0">>, <<"N", "a", "N">>}
      [] v.t = "function" -> TRUE
      [] OTHER -> FALSE

\* ToString, as ''.concat( value ) and Array.prototype.join apply it.
ToStr(v) ==
    CASE v.t = "undefined" -> <<"u", "n", "d", "e", "f", "i", "n", "e", "d">>
      [] v.t = "null" -> <<"n", "u", "l", "l">>
      [] OTHER -> v.s

\* a || b
OrElse(a, b) == IF Truthy(a) THEN a ELSE b

StartsWith(s, c) == Len(s) > 0 /\ s[1] = c

EndsWith(s, c) == Len(s) > 0 /\ s[Len(s)] = c

Slice(s, i, j) == IF i > j THEN <<>> ELSE SubSeq(s, i, j)

\* The first index at or after i whose character is in Stop; Len(s) + 1 if none.
RunEnd(s, i, Stop) ==
    LET C == {j \in i..Len(s) : s[j] \in Stop}
    IN  IF C = {} THEN Len(s) + 1 ELSE CHOOSE j \in C : \A k \in C : j <= k

RECURSIVE SplitFrom(_, _, _)
SplitFrom(s, i, c) ==
    LET j == RunEnd(s, i, {c})
    IN  IF j > Len(s) THEN <<Slice(s, i, Len(s))>>
        ELSE <<Slice(s, i, j - 1)>> \o SplitFrom(s, j + 1, c)

\* String.prototype.split with a one-character separator.
Split(s, c) == SplitFrom(s, 1, c)

RECURSIVE Flatten(_)
Flatten(ss) == IF ss = <<>> THEN <<>> ELSE Head(ss) \o Flatten(Tail(ss))

RECURSIVE JoinWith(_, _)
\* Array.prototype.join on an array of strings.
JoinWith(ss, sep) ==
    IF ss = <<>> THEN <<>>
    ELSE IF Len(ss) = 1 THEN ss[1]
    ELSE ss[1] \o sep \o JoinWith(Tail(ss), sep)

(***************************************************************************)
(* Number( value ) and Number.prototype.toString                           *)
(*                                                                         *)
(* A number is [k, neg, d, n]: k is "nan", "inf" or "fin"; for "fin" the   *)
(* value is 0.d x 10^n, d its significant decimal digits without leading   *)
(* or trailing zeros (empty for zero).  The parse is exact for up to 15    *)
(* significant digits and for the integers of 16 digits, where the double  *)
(* precision of the engine shows; longer digit strings are not inputs of   *)
(* the model.  The input alphabet has no 'x', 'o' or 'b' literal prefix.   *)
(***************************************************************************)
DigitChars == <<"0", "1", "2", "3", "4", "5", "6", "7", "8", "9">>

DigitVal(c) == (CHOOSE i \in 1..10 : DigitChars[i] = c) - 1

AllDigits(s) == \A i \in 1..Len(s) : s[i] \in Digits

RECURSIVE NatText(_)
\* The decimal text of a natural number.
NatText(n) ==
    IF n < 10 THEN <<DigitChars[n + 1]>>
    ELSE NatText(n \div 10) \o <<DigitChars[(n % 10) + 1]>>

\* The value of a digit string, saturated so that it stays a machine
\* integer; every exponent beyond the range of a double saturates alike.
ExpSaturation == 9999

RECURSIVE TextNat(_)
TextNat(s) ==
    IF s = <<>> THEN 0
    ELSE LET v == TextNat(Slice(s, 1, Len(s) - 1)) * 10 + DigitVal(s[Len(s)])
         IN  IF v > ExpSaturation THEN ExpSaturation ELSE v

RECURSIVE Zeros(_)
Zeros(n) == IF n <= 0 THEN <<>> ELSE <<"0">> \o Zeros(n - 1)

RECURSIVE StripLeading(_, _)
StripLeading(s, c) ==
    IF s # <<>> /\ Head(s) = c THEN StripLeading(Tail(s), c) ELSE s

RECURSIVE StripTrailing(_, _)
StripTrailing(s, c) ==
    IF s # <<>> /\ s[Len(s)] = c THEN StripTrailing(Slice(s, 1, Len(s) - 1), c)
    ELSE s

\* StrWhiteSpace of the numeric grammar; the alphabet's only blank is " ".
TrimSpaces(s) == StripTrailing(StripLeading(s, " "), " ")

NaN == [k |-> "nan", neg |-> FALSE, d |-> <<>>, n |-> 0]
Zero(neg) == [k |-> "fin", neg |-> neg, d |-> <<>>, n |-> 0]
Infinity(neg) == [k |-> "inf", neg |-> neg, d |-> <<>>, n |-> 0]

\* 0.a >= 0.b for digit strings a and b.
FracGE(a, b) ==
    LET m == IF Len(a) > Len(b) THEN Len(a) ELSE Len(b)
        pa == a \o Zeros(m - Len(a))
        pb == b \o Zeros(m - Len(b))
        D == {i \in 1..m : pa[i] # pb[i]}
    IN  IF D = {} THEN TRUE
        ELSE LET i == CHOOSE x \in D : \A y \in D : x <= y
             IN  DigitVal(pa[i]) > DigitVal(pb[i])

RECURSIVE IncDigits(_)
\* The digit string of the integer plus one.
IncDigits(s) ==
    IF s = <<>> THEN <<"1">>
    ELSE IF s[Len(s)] = "9" THEN IncDigits(Slice(s, 1, Len(s) - 1)) \o <<"0">>
    ELSE Slice(s, 1, Len(s) - 1) \o <<DigitChars[DigitVal(s[Len(s)]) + 2]>>

\* The decimal digits of 2^53, up to which every integer is a double, and
\* of the least value that rounds to Infinity (about 1.7976931348623158e308).
TwoTo53 == <<"9", "0", "0", "7", "1", "9", "9", "2", "5", "4", "7", "4", "0", "9", "9", "2">>
OverflowDigits == <<"1", "7", "9", "7", "6", "9", "3", "1", "3", "4", "8", "6", "2", "3", "1", "5", "8">>
MaxDecimalPoint == 309
MinDecimalPoint == -323

\* Round-to-nearest-even of a 16-digit integer above 2^53, where doubles
\* are the even integers: an odd one goes to the neighbour whose half is even.
RoundInt16(d) ==
    LET lo == DigitVal(d[16])
        two == (DigitVal(d[15]) * 10 + lo) % 4
    IN  IF lo % 2 = 0 THEN d
        ELSE IF two = 1 THEN Slice(d, 1, 15) \o <<DigitChars[lo]>>
        ELSE IncDigits(d)

\* The double of 0.d x 10^n, for d without leading or trailing zeros and
\* already rounded to the digits of a double.
Rounded(neg, d, n) ==
    IF d = <<>> THEN Zero(neg)
    ELSE IF n > MaxDecimalPoint \/ (n = MaxDecimalPoint /\ FracGE(d, OverflowDigits))
    THEN Infinity(neg)
    ELSE IF n < MinDecimalPoint THEN Zero(neg)
    ELSE [k |-> "fin", neg |-> neg, d |-> d, n |-> n]

\* A 16-digit integer after rounding: a carry makes it a 17-digit one.
RoundedInt16(neg, d) ==
    Rounded(neg, StripTrailing(d, "0"), IF Len(d) > 16 THEN 17 ELSE 16)

\* 0.d x 10^n for d without leading or trailing zeros: only a 16-digit
\* integer above 2^53 takes rounding.
Normalized(neg, d, n) ==
    IF n = 16 /\ Len(d) = 16 /\ FracGE(d, TwoTo53) /\ d # TwoTo53
    THEN RoundedInt16(neg, RoundInt16(d))
    ELSE Rounded(neg, d, n)

WithoutLeading(neg, ds, lead, n) ==
    Normalized(neg, StripTrailing(lead, "0"), n - (Len(ds) - Len(lead)))

\* A finite value from digits ds read as 0.ds x 10^n, rounded to a double.
Finite(neg, ds, n) == WithoutLeading(neg, ds, StripLeading(ds, "0"), n)

sInfinity == <<"I", "n", "f", "i", "n", "i", "t", "y">>

\* The digits of an ExponentPart after its e, and its value.
ExpDigits(ex) == IF ex # <<>> /\ ex[1] \in {"+", "-"} THEN Tail(ex) ELSE ex

ExpValue(ex) ==
    IF ex # <<>> /\ ex[1] = "-" THEN 0 - TextNat(ExpDigits(ex)) ELSE TextNat(ExpDigits(ex))

\* StrUnsignedDecimalLiteral from its integer part ip, its fraction fp and
\* its exponent part ex (hasExp tells whether it has one).
Decimal(neg, ip, fp, hasExp, ex) ==
    IF /\ AllDigits(ip) /\ AllDigits(fp) /\ ip \o fp # <<>>
       /\ (hasExp => (ExpDigits(ex) # <<>> /\ AllDigits(ExpDigits(ex))))
    THEN Finite(neg, ip \o fp, Len(ip) + (IF hasExp THEN ExpValue(ex) ELSE 0))
    ELSE NaN

\* The mantissa split at its point, at position p.
Mantissa(neg, mant, p, hasExp, ex) ==
    Decimal(neg, Slice(mant, 1, p - 1), Slice(mant, p + 1, Len(mant)), hasExp, ex)

\* The literal split at its e, at position m.
SplitExponent(neg, body, m, mant) ==
    Mantissa(neg, mant, RunEnd(mant, 1, {"."}), m <= Len(body), Slice(body, m + 1, Len(body)))

\* StrDecimalLiteral without its sign (the inputs hold no 0x, 0o or 0b
\* literal).
ParseUnsigned(neg, body, m) ==
    IF body = sInfinity THEN Infinity(neg)
    ELSE SplitExponent(neg, body, m, Slice(body, 1, m - 1))

Signed(t) ==
    IF t = <<>> THEN Zero(FALSE)
    ELSE IF t[1] \in {"+", "-"}
    THEN ParseUnsigned(t[1] = "-", Tail(t), RunEnd(Tail(t), 1, {"e", "E"}))
    ELSE ParseUnsigned(FALSE, t, RunEnd(t, 1, {"e", "E"}))

\* StringToNumber: Number( value ) for a string.
StringToNumber(s) == Signed(TrimSpaces(s))

\* Number( value ).
ToNumber(v) ==
    CASE v.t = "undefined" -> NaN
      [] v.t = "null" -> Zero(FALSE)
      [] OTHER -> StringToNumber(v.s)

\* The largest decimal point position Number::toString writes without an
\* exponent, and the smallest.
MaxPlainPoint == 21
MinPlainPoint == -5

ExponentText(e) ==
    IF e < 0 THEN <<"e", "-">> \o NatText(0 - e) ELSE <<"e", "+">> \o NatText(e)

\* The text of 0.d x 10^n, for k digits d.
Magnitude(d, k, n) ==
    IF k <= n /\ n <= MaxPlainPoint THEN d \o Zeros(n - k)
    ELSE IF 0 < n /\ n <= MaxPlainPoint
    THEN Slice(d, 1, n) \o <<".">> \o Slice(d, n + 1, k)
    ELSE IF MinPlainPoint <= n /\ n <= 0
    THEN <<"0", ".">> \o Zeros(0 - n) \o d
    ELSE IF k = 1 THEN d \o ExponentText(n - 1)
    ELSE <<d[1], ".">> \o Slice(d, 2, k) \o ExponentText(n - 1)

\* Number.prototype.toString( 10 ).
NumberToString(x) ==
    IF x.k = "nan" THEN <<"N", "a", "N">>
    ELSE IF x.k = "inf" THEN (IF x.neg THEN <<"-">> ELSE <<>>) \o sInfinity
    ELSE IF x.d = <<>> THEN <<"0">>
    ELSE (IF x.neg THEN <<"-">> ELSE <<>>) \o Magnitude(x.d, Len(x.d), x.n)

\* Number.isInteger( parsed )
IsInteger(x) == x.k = "fin" /\ (x.d = <<>> \/ x.n >= Len(x.d))

\* parsed > 0
IsPositive(x) == x.k # "nan" /\ ~x.neg /\ (x.k = "inf" \/ x.d # <<>>)

(***************************************************************************)
(* encodeURI, encodeURIComponent, decodeURIComponent                       *)
(*                                                                         *)
(* The alphabet is printable ASCII: Ascii[i] is the character of code      *)
(* 31 + i (QUOT, BSOL and GRAVE stand for the double quote, the backslash    *)
(* and the grave accent, which the lexer does not take in a string).       *)
(* Inputs hold no control or non-ASCII characters.                         *)
(***************************************************************************)
Ascii ==
    <<" ", "!", "QUOT", "#", "$", "%", "&", "'", "(", ")", "*", "+", ",", "-", ".", "/",
      "0", "1", "2", "3", "4", "5", "6", "7", "8", "9", ":", ";", "<", "=", ">", "?",
      "@", "A", "B", "C", "D", "E", "F", "G", "H", "I", "J", "K", "L", "M", "N", "O",
      "P", "Q", "R", "S", "T", "U", "V", "W", "X", "Y", "Z", "[", "BSOL", "]", "^", "_",
      "GRAVE", "a", "b", "c", "d", "e", "f", "g", "h", "i", "j", "k", "l", "m", "n", "o",
      "p", "q", "r", "s", "t", "u", "v", "w", "x", "y", "z", "{", "|", "}", "~">>

FirstPrintable == 32
LastPrintable == 126

CharCode(c) == (CHOOSE i \in 1..Len(Ascii) : Ascii[i] = c) + FirstPrintable - 1

HexChars == <<"0", "1", "2", "3", "4", "5", "6", "7", "8", "9", "A", "B", "C", "D", "E", "F">>
LowerHex == <<"0", "1", "2", "3", "4", "5", "6", "7", "8", "9", "a", "b", "c", "d", "e", "f">>

IsHex(c) == \E i \in 1..16 : HexChars[i] = c \/ LowerHex[i] = c

HexVal(c) == (CHOOSE i \in 1..16 : HexChars[i] = c \/ LowerHex[i] = c) - 1

\* "%XX" for a character.
PercentEncode(c) ==
    <<"%", HexChars[(CharCode(c) \div 16) + 1], HexChars[(CharCode(c) % 16) + 1]>>

Letters == {Ascii[i] : i \in 34..59} \cup {Ascii[i] : i \in 66..91}

\* uriUnescaped: what encodeURIComponent leaves alone.
UriUnescaped == Letters \cup Digits \cup {"-", "_", ".", "!", "~", "*", "'", "(", ")"}

\* uriReserved plus "#": what encodeURI leaves alone besides uriUnescaped.
UriReservedHash == {";", "/", "?", ":", "@", "&", "=", "+", "$", ",", "#"}

RECURSIVE EncodeKeeping(_, _)
EncodeKeeping(s, keep) ==
    IF s = <<>> THEN <<>>
    ELSE (IF Head(s) \in keep THEN <<Head(s)>> ELSE PercentEncode(Head(s)))
         \o EncodeKeeping(Tail(s), keep)

\* encodeURI( s )
EncodeURI(s) == EncodeKeeping(s, UriUnescaped \cup UriReservedHash)

\* encodeURIComponent( s )
EncodeURIComponent(s) == EncodeKeeping(s, UriUnescaped)

\* Whether decodeURIComponent( s ) throws URIError: a "%" that two hex
\* digits of an ASCII code do not follow.
RECURSIVE DecodeThrows(_)
DecodeThrows(s) ==
    IF s = <<>> THEN FALSE
    ELSE IF Head(s) # "%" THEN DecodeThrows(Tail(s))
    ELSE IF Len(s) < 3 \/ ~IsHex(s[2]) \/ ~IsHex(s[3]) THEN TRUE
    ELSE IF HexVal(s[2]) * 16 + HexVal(s[3]) \notin FirstPrintable..LastPrintable THEN TRUE
    ELSE DecodeThrows(Slice(s, 4, Len(s)))

RECURSIVE DecodeURIComponent(_)
\* decodeURIComponent( s ), where it does not throw.
DecodeURIComponent(s) ==
    IF s = <<>> THEN <<>>
    ELSE IF Head(s) # "%" THEN <<Head(s)>> \o DecodeURIComponent(Tail(s))
    ELSE <<Ascii[HexVal(s[2]) * 16 + HexVal(s[3]) - FirstPrintable + 1]>>
         \o DecodeURIComponent(Slice(s, 4, Len(s)))

(***************************************************************************)
(* The two regular expressions                                             *)
(***************************************************************************)
HasScheme(s, j) == j > 1 /\ j <= Len(s) /\ s[j] = ":"

HasAuthority(s, p1) == p1 + 1 <= Len(s) /\ s[p1] = "/" /\ s[p1 + 1] = "/"

HasMark(s, p, c) == p <= Len(s) /\ s[p] = c

\* The match array, from the positions where group 2 ends (j), group 3
\* starts (p1), group 5 starts (a), group 5 ends (p3) and group 6 ends (p4).
MatchGroups(s, j, p1, a, p3, p4) ==
    [length |-> 10,
     m1 |-> IF HasScheme(s, j) THEN Str(Slice(s, 1, j)) ELSE Undefined,
     m4 |-> IF HasAuthority(s, p1) THEN Str(Slice(s, p1 + 2, a - 1)) ELSE Undefined,
     m5 |-> Str(Slice(s, a, p3 - 1)),
     m6 |-> IF HasMark(s, p3, "?") THEN Str(Slice(s, p3, p4 - 1)) ELSE Undefined,
     m8 |-> IF HasMark(s, p4, "#") THEN Str(Slice(s, p4, Len(s))) ELSE Undefined]

\* (\?([^#]*))?
MatchSearch(s, j, p1, a, p3) ==
    MatchGroups(s, j, p1, a, p3, IF HasMark(s, p3, "?") THEN RunEnd(s, p3 + 1, {"#"}) ELSE p3)

\* ([^?#]*)
MatchPath(s, j, p1, a) == MatchSearch(s, j, p1, a, RunEnd(s, a, {"?", "#"}))

\* (\/\/([^\/?#]*))?
MatchAuthority(s, j, p1) ==
    MatchPath(s, j, p1, IF HasAuthority(s, p1) THEN RunEnd(s, p1 + 2, {"/", "?", "#"}) ELSE p1)

\* (([^:\/?#]+):)?
MatchScheme(s, j) == MatchAuthority(s, j, IF HasScheme(s, j) THEN j + 1 ELSE 1)

\* string.match( EndpointLocation.URLRegExp ): the entries of the match
\* array that assign reads; a group that took no part is undefined.  The
\* pattern matches every string, so the array always has 10 entries.
MatchURL(s) == MatchScheme(s, RunEnd(s, 1, {":", "/", "?", "#"}))

SearchStops == {"?", "=", "&"}

RECURSIVE SearchTokensFrom(_, _)
SearchTokensFrom(s, i) ==
    LET S == {j \in i..Len(s) : s[j] \notin SearchStops}
    IN  IF S = {} THEN <<>>
        ELSE LET i0 == CHOOSE j \in S : \A k \in S : j <= k
                 kend == RunEnd(s, i0, SearchStops)
                 vend == IF kend <= Len(s) /\ s[kend] = "="
                         THEN RunEnd(s, kend + 1, {"&"}) ELSE kend
             IN  <<Slice(s, i0, vend - 1)>> \o SearchTokensFrom(s, vend)

\* string.match( EndpointLocation.SearchRegExp ) || []: the global match of
\* ([^?=&]+)(=([^&]*))? gives the matched tokens from left to right.
SearchTokens(s) == SearchTokensFrom(s, 1)

(***************************************************************************)
(* Parameter objects: a key/value object is the sequence of its entries in *)
(* insertion order (keys are not integer-like, so this is the order        *)
(* Object.entries gives).                                                  *)
(***************************************************************************)
HasKey(p, k) == \E i \in 1..Len(p) : p[i].k = k

\* result[ key ] = value
ParamsPut(p, k, v) ==
    IF HasKey(p, k)
    THEN [i \in 1..Len(p) |-> IF p[i].k = k THEN [k |-> k, v |-> v] ELSE p[i]]
    ELSE Append(p, [k |-> k, v |-> v])

\* delete object[ key ]
ParamsDelete(p, k) == SelectSeq(p, LAMBDA e : e.k # k)

fnDecodeURIComponent == [t |-> "function", s |-> <<"d", "e", "c", "o", "d", "e", "C">>]
fnEncodeURIComponent == [t |-> "function", s |-> <<"e", "n", "c", "o", "d", "e", "C">>]
\* encoder( part ): the function values of the model are the defaults.
ApplyEncoder(fn, s) == EncodeURIComponent(s)

\* let[ key, value ] = each.split( '=' ): version 1.0.0 takes the first two
\* pieces as they are; version 1.1.0 first maps every piece through the
\* decoder, which throws when any piece is malformed.
TokenPieces(each) == Split(each, "=")

TokenThrows(ver, each) ==
    /\ ver = "1.1.0"
    /\ \E i \in 1..Len(TokenPieces(each)) : DecodeThrows(TokenPieces(each)[i])

TokenKey(ver, each) ==
    IF ver = "1.1.0" THEN DecodeURIComponent(TokenPieces(each)[1])
    ELSE TokenPieces(each)[1]

TokenValue(ver, each) ==
    IF Len(TokenPieces(each)) < 2 THEN Undefined
    ELSE IF ver = "1.1.0" THEN Str(DecodeURIComponent(TokenPieces(each)[2]))
    ELSE Str(TokenPieces(each)[2])

RECURSIVE ReduceTokens(_, _, _)
ReduceTokens(ver, tokens, result) ==
    IF tokens = <<>> THEN result
    ELSE ReduceTokens(ver, Tail(tokens),
             ParamsPut(result, TokenKey(ver, Head(tokens)), TokenValue(ver, Head(tokens))))

\* locationSearchToParameterObject( search ) of version 1.0.0 and
\* this.decodeSearchParameters( search ) of version 1.1.0 (the decoder is
\* decodeURIComponent): [err, params].
DecodeSearch(ver, search) ==
    LET text == IF Truthy(search) THEN search.s ELSE <<>>
        tokens == SearchTokens(text)
    IN  IF \E i \in 1..Len(tokens) : TokenThrows(ver, tokens[i])
        THEN [err |-> "URIError", params |-> <<>>]
        ELSE [err |-> "none", params |-> ReduceTokens(ver, tokens, <<>>)]

\* The call assign makes.  Version 1.0.0 calls the static
\* locationSearchToParameterObject.  Version 1.1.0 calls
\* EndpointLocation.decodeSearchParameters, but decodeSearchParameters is a
\* method of the instances, not of the class: the callee is undefined and
\* the call throws a TypeError.
StaticDecodeSearch(ver, search) ==
    IF ver = "1.1.0" THEN [err |-> "TypeError", params |-> <<>>]
    ELSE DecodeSearch(ver, search)

\* One pair of Object.entries( object ) joined with '=': version 1.0.0 joins
\* the pair as it is (join writes undefined and null as ''), version 1.1.0
\* joins the encoder's results.
EncodePair(ver, fn, e) ==
    IF ver = "1.1.0"
    THEN ApplyEncoder(fn, e.k) \o <<"=">> \o ApplyEncoder(fn, ToStr(e.v))
    ELSE e.k \o <<"=">> \o (IF e.v.t \in {"undefined", "null"} THEN <<>> ELSE ToStr(e.v))

\* wwwFormUrlEncodeObject( object ) of version 1.0.0 and
\* this.encodeSearchParameters( object ) of version 1.1.0.
EncodeParams(ver, fn, p) ==
    JoinWith([i \in 1..Len(p) |-> EncodePair(ver, fn, p[i])], <<"&">>)

(***************************************************************************)
(* The instance.  w = [o, h, err] is an instance o, the heap h of          *)
(* parameter objects and the error thrown so far ("none" if none); a       *)
(* statement after a throw does not run.                                   *)
(***************************************************************************)
Step(w, F(_)) == IF w.err # "none" THEN w ELSE F(w)

Throw(w, e) == [w EXCEPT !.err = e]

\* 'hash' is either empty string or starts with '#'.
SetHash(w, v) ==
    IF IsString(v) /\ (v.s = <<>> \/ StartsWith(v.s, "#"))
    THEN [w EXCEPT !.o.hash = v]
    ELSE Throw(w, "TypeError")

\* Version 1.0.0 has no accessor for hostname: it is a plain property.
SetHostname(ver, w, v) ==
    IF ver = "1.0.0" \/ IsString(v)
    THEN [w EXCEPT !.o.hostname = v]
    ELSE Throw(w, "TypeError")

\* 'pathname' always starts with '/'.
SetPathname(w, v) ==
    IF IsString(v) /\ StartsWith(v.s, "/")
    THEN [w EXCEPT !.o.pathname = v]
    ELSE Throw(w, "TypeError")

\* The test of the port setter on a value other than '', parsed being
\* Number( value ).
PortAccepted(v, parsed) ==
    /\ IsInteger(parsed)
    /\ IsPositive(parsed)
    /\ \/ IsString(v) /\ NumberToString(parsed) = v.s
       \/ IsNumber(v) /\ parsed.k # "nan"

SetPortParsed(w, v, parsed) ==
    IF PortAccepted(v, parsed)
    THEN [w EXCEPT !.o.port = Str(NumberToString(parsed))]
    ELSE Throw(w, "TypeError")

\* 'port' is an empty string or parsable as a positive integer.
SetPort(w, v) ==
    IF v = Str(<<>>) THEN [w EXCEPT !.o.port = v]
    ELSE SetPortParsed(w, v, ToNumber(v))

\* 'protocol' always ends with ':'.
SetProtocol(w, v) ==
    IF IsString(v) /\ EndsWith(v.s, ":")
    THEN [w EXCEPT !.o.protocol = v]
    ELSE Throw(w, "TypeError")

\* this.params = <the object at reference r>; r = 0 is a value that is no
\* object.  Version 1.0.0 has no accessor for params.
SetParams(ver, w, r) ==
    IF ver = "1.0.0" \/ r # 0
    THEN [w EXCEPT !.o.params = r]
    ELSE Throw(w, "TypeError")

\* this.params = <a new object with entries p>, allocated at reference f.
SetNewParams(ver, w, f, p) == SetParams(ver, [w EXCEPT !.h[f] = p], f)

SetDecoder(w, v) ==
    IF v.t = "function" THEN [w EXCEPT !.o.uriComponentDecoder = v]
    ELSE Throw(w, "TypeError")

SetEncoder(w, v) ==
    IF v.t = "function" THEN [w EXCEPT !.o.uriComponentEncoder = v]
    ELSE Throw(w, "TypeError")

\* The host getter.
Host(o) ==
    ToStr(o.hostname) \o (IF Truthy(o.port) THEN <<":">> \o ToStr(o.port) ELSE <<>>)

\* A search getter that leaves out the question mark.
SearchUnmarked(ver, o, p) ==
    IF Len(p) > 0 THEN EncodeParams(ver, o.uriComponentEncoder, p) ELSE <<>>

\* The search getter, on the parameter object p of the instance.
Search(ver, o, p) ==
    IF Len(p) > 0 THEN <<"?">> \o EncodeParams(ver, o.uriComponentEncoder, p)
    ELSE <<>>

\* The concatenation toString hands to encodeURI.
Concatenated(ver, o, p) ==
    ToStr(o.protocol) \o <<"/", "/">> \o Host(o) \o ToStr(o.pathname)
        \o Search(ver, o, p) \o ToStr(o.hash)

\* toString() and the href getter.
toString(ver, o, p) == EncodeURI(Concatenated(ver, o, p))

\* An object handed to assign or to the constructor: its properties as
\* assign reads them, params as a reference (0 when it has none).
NoSource ==
    [hash |-> Undefined, hostname |-> Undefined, pathname |-> Undefined,
     port |-> Undefined, protocol |-> Undefined, search |-> Undefined,
     uriComponentDecoder |-> Undefined, uriComponentEncoder |-> Undefined,
     params |-> 0]

\* this.params = endpointLocation.params || <decoded search> || this.params.
\* The decoded search is an object, so the last operand is never reached.
AssignParams(ver, w, f, src) ==
    IF src.params # 0 THEN SetParams(ver, w, src.params)
    ELSE LET d == StaticDecodeSearch(ver, src.search)
         IN  IF d.err # "none" THEN Throw(w, d.err)
             ELSE SetNewParams(ver, w, f, d.params)

\* assign( endpointLocation ) for an object, version 1.0.0.
AssignObject100(w, f, src) ==
    LET w1 == SetHash(w, OrElse(src.hash, w.o.hash))
        w2 == Step(w1, LAMBDA x : SetHostname("1.0.0", x, OrElse(src.hostname, x.o.hostname)))
        w3 == Step(w2, LAMBDA x : SetPathname(x, OrElse(src.pathname, x.o.pathname)))
        w4 == Step(w3, LAMBDA x : SetPort(x, OrElse(src.port, x.o.port)))
        w5 == Step(w4, LAMBDA x : SetProtocol(x, OrElse(src.protocol, x.o.protocol)))
    IN  Step(w5, LAMBDA x : AssignParams("1.0.0", x, f, src))

\* assign( endpointLocation ) for an object, version 1.1.0.
AssignObject110(w, f, src) ==
    LET w1 == SetHash(w, OrElse(src.hash, w.o.hash))
        w2 == Step(w1, LAMBDA x : SetHostname("1.1.0", x, OrElse(src.hostname, x.o.hostname)))
        w3 == Step(w2, LAMBDA x : AssignParams("1.1.0", x, f, src))
        w4 == Step(w3, LAMBDA x : SetPathname(x, OrElse(src.pathname, x.o.pathname)))
        w5 == Step(w4, LAMBDA x : SetPort(x, OrElse(src.port, x.o.port)))
        w6 == Step(w5, LAMBDA x : SetProtocol(x, OrElse(src.protocol, x.o.protocol)))
        w7 == Step(w6, LAMBDA x :
                  SetDecoder(x, OrElse(src.uriComponentDecoder, x.o.uriComponentDecoder)))
    IN  Step(w7, LAMBDA x :
                  SetEncoder(x, OrElse(src.uriComponentEncoder, x.o.uriComponentEncoder)))

AssignObject(ver, w, f, src) ==
    IF ver = "1.1.0" THEN AssignObject110(w, f, src) ELSE AssignObject100(w, f, src)

\* let host_parts = (matches[ 4 ] || '').split( ':' ), '' pushed when the
\* authority has no ':'.
HostParts(m) ==
    LET parts == Split(OrElse(m.m4, Str(<<>>)).s, ":")
    IN  IF Len(parts) < 2 THEN Append(parts, <<>>) ELSE parts

\* assign( endpointLocation ) for a string, version 1.0.0: m is the match
\* array and hp the pieces of host.
AssignString100(w, f, m, hp) ==
    LET w1 == SetHash(w, OrElse(m.m8, w.o.hash))
        w2 == Step(w1, LAMBDA x : SetPathname(x, OrElse(m.m5, x.o.pathname)))
        w3 == Step(w2, LAMBDA x : SetProtocol(x, OrElse(m.m1, x.o.protocol)))
        w4 == Step(w3, LAMBDA x : AssignParams("1.0.0", x, f, [params |-> 0, search |-> m.m6]))
        w5 == Step(w4, LAMBDA x : SetHostname("1.0.0", x, OrElse(Str(hp[1]), x.o.hostname)))
    IN  IF m.length = 10
        THEN Step(w5, LAMBDA x : SetPort(x, OrElse(Str(hp[2]), x.o.port)))
        ELSE w

\* assign( endpointLocation ) for a string, version 1.1.0.
AssignString110(w, f, m, hp) ==
    LET w1 == SetHash(w, OrElse(m.m8, w.o.hash))
        w2 == Step(w1, LAMBDA x : SetHostname("1.1.0", x, OrElse(Str(hp[1]), x.o.hostname)))
        w3 == Step(w2, LAMBDA x : AssignParams("1.1.0", x, f, [params |-> 0, search |-> m.m6]))
        w4 == Step(w3, LAMBDA x : SetPathname(x, OrElse(m.m5, x.o.pathname)))
        w5 == Step(w4, LAMBDA x : SetPort(x, OrElse(Str(hp[2]), x.o.port)))
        w6 == Step(w5, LAMBDA x : SetProtocol(x, OrElse(m.m1, x.o.protocol)))
        w7 == Step(w6, LAMBDA x : SetDecoder(x, fnDecodeURIComponent))
    IN  IF m.length = 10
        THEN Step(w7, LAMBDA x : SetEncoder(x, fnEncodeURIComponent))
        ELSE w

AssignMatch(ver, w, f, m) ==
    IF ver = "1.1.0" THEN AssignString110(w, f, m, HostParts(m))
    ELSE AssignString100(w, f, m, HostParts(m))

AssignString(ver, w, f, s) == AssignMatch(ver, w, f, MatchURL(s))

\* The instance the constructor has built before it looks at its argument:
\* version 1.0.0 sets the defaults through the accessors, version 1.1.0 as
\* the initial hidden state; this.params is a new empty object, at f.
DefaultInstance(ver, f) ==
    [hash |-> Str(<<>>), hostname |-> Str(<<>>), pathname |-> Str(<<"/">>),
     port |-> Str(<<>>), protocol |-> Str(<<"h", "t", "t", "p", "s", ":">>),
     params |-> f,
     uriComponentDecoder |-> IF ver = "1.1.0" THEN fnDecodeURIComponent ELSE Undefined,
     uriComponentEncoder |-> IF ver = "1.1.0" THEN fnEncodeURIComponent ELSE Undefined]

Constructed(ver, h, f) ==
    [o |-> DefaultInstance(ver, f), h |-> [h EXCEPT ![f] = <<>>], err |-> "none"]

\* new EndpointLocation( <object> )
ConstructFromObject(ver, h, f, src) == AssignObject(ver, Constructed(ver, h, f), f, src)

\* new EndpointLocation( <string> ): a falsy argument is not assigned.
ConstructFromString(ver, h, f, v) ==
    IF Truthy(v) THEN AssignString(ver, Constructed(ver, h, f), f, v.s)
    ELSE Constructed(ver, h, f)

\* A host setter that writes the port without the port setter.
SetHostUnvalidated(ver, w, v) ==
    LET parts == Split(OrElse(v, Str(<<>>)).s, ":")
    IN  IF Len(parts) > 1
        THEN [w EXCEPT !.o.hostname = Str(parts[1]), !.o.port = Str(parts[2])]
        ELSE [w EXCEPT !.o.hostname = Str(parts[1])]

\* The host setter.
SetHost(ver, w, v) ==
    LET parts == Split(OrElse(v, Str(<<>>)).s, ":")
        w1 == SetHostname(ver, w, Str(parts[1]))
    IN  IF Len(parts) > 1 THEN Step(w1, LAMBDA x : SetPort(x, Str(parts[2]))) ELSE w1

\* The search setter: version 1.0.0 decodes with the static function,
\* version 1.1.0 with the method of the instance.
SetSearch(ver, w, f, v) ==
    IF IsString(v) /\ (v.s = <<>> \/ StartsWith(v.s, "?"))
    THEN LET d == DecodeSearch(ver, v)
         IN  IF d.err # "none" THEN Throw(w, d.err)
             ELSE SetNewParams(ver, w, f, d.params)
    ELSE Throw(w, "TypeError")

\* An instance as the argument of assign: its own properties, and search
\* from the getter of the prototype.
AsSource(ver, o, p) ==
    [hash |-> o.hash, hostname |-> o.hostname, pathname |-> o.pathname,
     port |-> o.port, protocol |-> o.protocol, search |-> Str(Search(ver, o, p)),
     uriComponentDecoder |-> o.uriComponentDecoder,
     uriComponentEncoder |-> o.uriComponentEncoder,
     params |-> o.params]

(***************************************************************************)
(* The strings the operations are called with                              *)
(***************************************************************************)
sFrag == <<"#", "f", "r", "a", "g">>
sNoFrag == <<"n", "o", "f", "r", "a", "g">>
sExample == <<"e", "x", "a", "m", "p", "l", "e", ".", "c", "o", "m">>
sBcom == <<"b", ".", "c", "o", "m">>
sAB == <<"/", "a", "/", "b">>
sASpaceB == <<"/", "a", " ", "b">>
sEndpoint ==
    <<"/", "p", "a", "t", "h", "/", "t", "o", "/", "e", "n", "d", "p", "o", "i", "n", "t">>
sRelative == <<"a", "/", "b">>
s8080 == <<"8", "0", "8", "0">>
s080 == <<"0", "8", "0">>
s1e21 == <<"1", "e", "+", "2", "1">>
sBeyond53 ==
    <<"9", "0", "0", "7", "1", "9", "9", "2", "5", "4", "7", "4", "0", "9", "9", "3">>
sHttps == <<"h", "t", "t", "p", "s", ":">>
sHttp == <<"h", "t", "t", "p", ":">>
sHttpBare == <<"h", "t", "t", "p">>
sUrlFull ==
    <<"h", "t", "t", "p", "s", ":", "/", "/", "e", "x", "a", "m", "p", "l", "e", ".", "c", "o",
      "m", ":", "8", "0", "8", "0", "/", "a", "/", "b", "?", "x", "=", "1", "&", "y",
      "=", "2", "#", "f", "r", "a", "g">>
sUrlBcom == <<"h", "t", "t", "p", "s", ":", "/", "/", "b", ".", "c", "o", "m", "/">>
sUrlBadPort ==
    <<"h", "t", "t", "p", ":", "/", "/", "b", ".", "c", "o", "m", ":", "0", "8", "0", "/">>
sHostPort == <<"b", ".", "c", "o", "m", ":", "8", "0", "8", "0">>
sHostBadPort == <<"b", ".", "c", "o", "m", ":", "0", "8", "0">>
sSearchXY == <<"?", "x", "=", "1", "&", "y", "=", "2">>
sSearchABC == <<"?", "a", "=", "b", "=", "c">>
sSearchDup == <<"?", "x", "=", "1", "&", "x", "=", "2">>
sSearchSpace == <<"?", "q", "=", "a", "%", "2", "0", "b">>
sSearchBad == <<"?", "q", "=", "%", "z", "z">>
sSearchNoMark == <<"x", "=", "1">>

Entry(k, v) == [k |-> k, v |-> Str(v)]

\* { x:'1', y:'2' }, { hash:'of', url:'parameters' }, { q:'a b' }, { x:'1' }
pXY == <<Entry(<<"x">>, <<"1">>), Entry(<<"y">>, <<"2">>)>>
pReadme ==
    <<Entry(<<"h", "a", "s", "h">>, <<"o", "f">>),
      Entry(<<"u", "r", "l">>, <<"p", "a", "r", "a", "m", "e", "t", "e", "r", "s">>)>>
pSpace == <<Entry(<<"q">>, <<"a", " ", "b">>)>>
pX == <<Entry(<<"x">>, <<"1">>)>>

\* The values the port setter is called with.
PortProbes ==
    {Str(<<>>), Str(s8080), NumV(s8080), Str(s080), Str(s1e21), Str(sBeyond53),
     Str(<<"3", ".", "5">>), Str(<<"-", "5">>), Str(<<"a", "b", "c">>),
     Str(<<" ", "8", "0", " ">>), Str(<<"0">>), NumV(<<"0">>), Str(<<"4", "4", "3">>),
     Str(<<"1", "e", "3">>), Str(<<"+", "8", "0">>), Undefined, Null}
SearchProbes ==
    {Str(<<>>), Str(sSearchXY), Str(sSearchABC), Str(sSearchDup), Str(sSearchSpace),
     Str(sSearchBad), Str(sSearchNoMark)}
sHostNoPort == <<"b", ".", "c", "o", "m", ":">>
sHost443 == <<"b", ".", "c", "o", "m", ":", "4", "4", "3">>
sHost1e21 == <<"b", ".", "c", "o", "m", ":", "1", "e", "+", "2", "1">>
sHostTwoColons == <<"b", ".", "c", "o", "m", ":", "8", "0", ":", "1">>
\* The values the host setter is called with.
HostProbes ==
    {Str(sHostPort), Str(sHostBadPort), Str(sHostNoPort), Str(sHost443), Str(sHost1e21),
     Str(sHostTwoColons), Str(sExample), Str(sBcom), Str(<<>>), Undefined}
UrlProbes == {Str(sUrlFull), Str(sUrlBcom), Str(sUrlBadPort)}

\* The configuration objects: [src, has, lit], where lit are the entries of
\* the params literal when the object has one.
Config(src, has, lit) == [src |-> src, has |-> has, lit |-> lit]

\* The example of the class documentation.
cReadme ==
    Config([NoSource EXCEPT !.hostname = Str(sExample), !.pathname = Str(sEndpoint),
                            !.protocol = Str(sHttps)], TRUE, pReadme)
cSpacePath ==
    Config([NoSource EXCEPT !.hostname = Str(sBcom), !.pathname = Str(sASpaceB),
                            !.protocol = Str(sHttp)], TRUE, pX)
\* { hostname:'' }
cEmptyHostname == Config([NoSource EXCEPT !.hostname = Str(<<>>)], FALSE, <<>>)
\* { pathname:'/a/b', port:'8080', hash:'#frag' }
cNoParams ==
    Config([NoSource EXCEPT !.pathname = Str(sAB), !.port = Str(s8080),
                            !.hash = Str(sFrag)], FALSE, <<>>)
\* { search:'?x=1&y=2' }
cSearchOnly == Config([NoSource EXCEPT !.search = Str(sSearchXY)], FALSE, <<>>)
\* Falsy values of every kind, beside a truthy protocol.
cFalsy ==
    Config([NoSource EXCEPT !.hash = Null, !.hostname = Str(<<>>), !.pathname = Str(<<>>),
                            !.port = NumV(<<"0">>), !.protocol = Str(sHttp)], TRUE, <<>>)
\* { hash:'nofrag', hostname:'b.com' }: the first setter throws.
cBadHash ==
    Config([NoSource EXCEPT !.hash = Str(sNoFrag), !.hostname = Str(sBcom)], TRUE, pX)

Configs == {cReadme, cSpacePath, cEmptyHostname, cNoParams, cSearchOnly, cFalsy, cBadHash}

(***************************************************************************)
(* The state machine                                                       *)
(*                                                                         *)
(* inst: the instances of the program; heap: the parameter objects, by     *)
(* reference; cfg.params: the params object of the configuration object    *)
(* the caller last built (0: it has none); last: the last call, its        *)
(* argument and the error it threw.                                        *)
(***************************************************************************)
Versions == {"1.0.0", "1.1.0"}
Insts == {"A", "B"}
MaxRefs == 5
MaxHref == 41
Refs == 1..MaxRefs

Dropped == MaxRefs + 1

Reachable(in, c) == {in[i].params : i \in Insts} \cup ({c.params} \ {0})

\* The reference a new object gets: the least one nothing refers to.
FreshRef ==
    LET free == Refs \ Reachable(inst, cfg)
    IN  CHOOSE r \in free : \A q \in free : r <= q

\* A second new object of the same call.
FreshRef2 ==
    LET free == Refs \ (Reachable(inst, cfg) \cup {FreshRef})
    IN  CHOOSE r \in free : \A q \in free : r <= q

\* The address of an object is not observable, only its identity: after a
\* call the objects still referred to are numbered in the order A.params,
\* B.params, cfg.params, and the others are gone (Dropped).
Renumber(in, c, r) ==
    LET rA == in["A"].params
        rB == in["B"].params
        nB == IF rB = rA THEN 1 ELSE 2
    IN  IF r = 0 THEN 0
        ELSE IF r = rA THEN 1
        ELSE IF r = rB THEN nB
        ELSE IF r = c.params THEN nB + 1
        ELSE Dropped

Collect(in, c, h) ==
    [n \in Refs |->
        IF \E r \in Reachable(in, c) : Renumber(in, c, r) = n
        THEN h[CHOOSE r \in Reachable(in, c) : Renumber(in, c, r) = n]
        ELSE <<>>]

World(i) == [o |-> inst[i], h |-> heap, err |-> "none"]

Params(i) == heap[inst[i].params]

\* A call: the operation, the variable it acts on, the error it threw, its
\* argument when a string or another primitive (val) or an object (src).
Call(op, who, err, val, src) ==
    [op |-> op, who |-> who, err |-> err, val |-> val, src |-> src]

\* The call on instance i ends with the world w.
Commit(i, w, op, val, src, c) ==
    LET in == [inst EXCEPT ![i] = w.o]
    IN  /\ inst' = [j \in Insts |-> [in[j] EXCEPT !.params = Renumber(in, c, @)]]
        /\ heap' = Collect(in, c, w.h)
        /\ cfg' = [params |-> Renumber(in, c, c.params)]
        /\ last' = Call(op, i, w.err, val, [src EXCEPT !.params = Renumber(in, c, @)])
        /\ UNCHANGED version

\* new EndpointLocation( ... ) bound to the variable i, called with the heap
\* h0: when the constructor throws, the variable keeps the instance it held.
CommitNew(i, w, h0, op, val, src, c) ==
    IF w.err = "none" THEN Commit(i, w, op, val, src, c)
    ELSE Commit(i, [o |-> inst[i], h |-> h0, err |-> w.err], op, val, src, c)

Init ==
    /\ version \in Versions
    /\ inst = [i \in Insts |-> DefaultInstance(version, IF i = "A" THEN 1 ELSE 2)]
    /\ heap = [r \in Refs |-> <<>>]
    /\ cfg = [params |-> 0]
    /\ last = Call("new", "A", "none", Undefined, NoSource)

HashSet(i, In) ==
    \E v \in In : Commit(i, SetHash(World(i), v), "hash", v, NoSource, cfg)

HostnameSet(i, In) ==
    \E v \in In : Commit(i, SetHostname(version, World(i), v), "hostname", v, NoSource, cfg)

PathnameSet(i, In) ==
    \E v \in In : Commit(i, SetPathname(World(i), v), "pathname", v, NoSource, cfg)

PortSet(i, In) ==
    \E v \in In : Commit(i, SetPort(World(i), v), "port", v, NoSource, cfg)

ProtocolSet(i, In) ==
    \E v \in In : Commit(i, SetProtocol(World(i), v), "protocol", v, NoSource, cfg)

\* i.params = { ... }
ParamsSet(i, In) ==
    \E p \in In :
        Commit(i, SetNewParams(version, World(i), FreshRef, p), "params", Undefined,
               NoSource, cfg)

\* The decoder and encoder properties exist in version 1.1.0 only.
DecoderSet(i, In) ==
    /\ version = "1.1.0"
    /\ \E v \in In :
           Commit(i, SetDecoder(World(i), v), "uriComponentDecoder", v, NoSource, cfg)

EncoderSet(i, In) ==
    /\ version = "1.1.0"
    /\ \E v \in In :
           Commit(i, SetEncoder(World(i), v), "uriComponentEncoder", v, NoSource, cfg)

HostSet(i, In) ==
    \E v \in In : Commit(i, SetHost(version, World(i), v), "host", v, NoSource, cfg)

SearchSet(i, In) ==
    \E v \in In :
        Commit(i, SetSearch(version, World(i), FreshRef, v), "search", v, NoSource, cfg)

\* i.href = value delegates to assign.
HrefSet(i, In) ==
    \E v \in In :
        Commit(i, AssignString(version, World(i), FreshRef, v.s), "href", v, NoSource, cfg)

\* i.assign( '...' )
AssignUrl(i, In) ==
    \E v \in In :
        Commit(i, AssignString(version, World(i), FreshRef, v.s), "assign", v, NoSource, cfg)

\* The caller builds the configuration object c; its params literal, when
\* it has one, is a new object, at f.
SourceOf(c, f) == IF c.has THEN [c.src EXCEPT !.params = f] ELSE c.src

HeapWith(c, f) == IF c.has THEN [heap EXCEPT ![f] = c.lit] ELSE heap

\* What the caller holds after the call: the configuration object when it
\* keeps it, the one it held before otherwise.
Held(c, f, keep) == IF keep THEN [params |-> IF c.has THEN f ELSE 0] ELSE cfg

\* i.assign( { ... } )
AssignConfig(i, In, keep) ==
    \E c \in In :
        LET f == FreshRef
            w == [o |-> inst[i], h |-> HeapWith(c, f), err |-> "none"]
        IN  Commit(i, AssignObject(version, w, FreshRef2, SourceOf(c, f)), "assign",
                   Undefined, SourceOf(c, f), Held(c, f, keep))

\* i = new EndpointLocation()
ConstructEmpty(i) ==
    CommitNew(i, Constructed(version, heap, FreshRef), heap, "new", Undefined, NoSource, cfg)

\* i = new EndpointLocation( '...' )
ConstructUrl(i, In) ==
    \E v \in In :
        CommitNew(i, ConstructFromString(version, heap, FreshRef, v), heap, "new", v,
                  NoSource, cfg)

\* i = new EndpointLocation( { ... } )
ConstructConfig(i, In, keep) ==
    \E c \in In :
        LET f == FreshRef
        IN  CommitNew(i, ConstructFromObject(version, HeapWith(c, f), FreshRef2, SourceOf(c, f)),
                      HeapWith(c, f), "new", Undefined, SourceOf(c, f), Held(c, f, keep))

\* i = new EndpointLocation( i.href ), for an href of at most MaxHref
\* characters (a percent sign grows by two characters at every turn).
Reparse(i) ==
    LET href == Str(toString(version, inst[i], Params(i)))
    IN  /\ Len(href.s) <= MaxHref
        /\ CommitNew(i, ConstructFromString(version, heap, FreshRef, href), heap, "reparse",
                     href, NoSource, cfg)

\* One instance and the whole of its interface, each operation with a value
\* it takes and a value it refuses.
Next ==
    \/ HashSet("A", {Str(sFrag), Str(sNoFrag)})
    \/ HostnameSet("A", {Str(sExample)})
    \/ PathnameSet("A", {Str(sAB), Str(sRelative)})
    \/ PortSet("A", {Str(s8080), Str(s080), Str(s1e21)})
    \/ ProtocolSet("A", {Str(sHttp), Str(sHttpBare)})
    \/ ParamsSet("A", {pSpace})
    \/ DecoderSet("A", {fnDecodeURIComponent, Undefined})
    \/ EncoderSet("A", {fnEncodeURIComponent, Undefined})
    \/ HostSet("A", {Str(sHostPort), Str(sHostBadPort)})
    \/ SearchSet("A", {Str(sSearchXY), Str(sSearchNoMark)})
    \/ HrefSet("A", {Str(sUrlBcom)})
    \/ AssignUrl("A", {Str(sUrlFull), Str(sUrlBadPort)})
    \/ AssignConfig("A", {cReadme, cEmptyHostname}, FALSE)
    \/ ConstructEmpty("A")
    \/ ConstructUrl("A", {Str(sUrlFull)})
    \/ ConstructConfig("A", {cReadme, cBadHash}, FALSE)
    \/ Reparse("A")

Spec == Init /\ [][Next]_vars

\* The port setter on its own, with every kind of value.
NextPort ==
    \/ PortSet("A", PortProbes)
    \/ HostnameSet("A", {Str(sExample)})
    \/ ConstructEmpty("A")

SpecPort == Init /\ [][NextPort]_vars

\* The constructor and assign with configuration objects.
NextAssign ==
    \/ AssignConfig("A", Configs, FALSE)
    \/ ConstructConfig("A", Configs, FALSE)
    \/ HashSet("A", {Str(sFrag)})
    \/ HostnameSet("A", {Str(sExample)})
    \/ PortSet("A", {Str(s8080)})

SpecAssign == Init /\ [][NextAssign]_vars

\* The constructor, assign and href with URL strings.
NextUrl ==
    \/ ConstructUrl("A", UrlProbes)
    \/ AssignUrl("A", UrlProbes)
    \/ HrefSet("A", UrlProbes)
    \/ PathnameSet("A", {Str(sASpaceB)})
    \/ HostnameSet("A", {Str(<<>>)})
    \/ ConstructEmpty("A")
    \/ Reparse("A")

SpecUrl == Init /\ [][NextUrl]_vars

\* The search setter and getter and href.
NextSearch ==
    \/ SearchSet("A", SearchProbes)
    \/ ParamsSet("A", {<<>>, pSpace, pXY})
    \/ PathnameSet("A", {Str(sAB)})
    \/ HostnameSet("A", {Str(sExample)})
    \/ EncoderSet("A", {fnEncodeURIComponent, Undefined})

SpecSearch == Init /\ [][NextSearch]_vars

\* The host setter, beside the setters of hostname and port.
NextHost ==
    \/ HostSet("A", HostProbes)
    \/ PortSet("A", {Str(s8080), Str(<<>>)})
    \/ HostnameSet("A", {Str(sExample)})
    \/ HashSet("A", {Str(sFrag)})

SpecHost == Init /\ [][NextHost]_vars

\* The parameter object of a variable of the caller: an instance or the
\* configuration object it holds.
RefOf(who) == IF who = "cfg" THEN cfg.params ELSE inst[who].params

MaxParams == 2

\* who.params[ k ] = v
ParamsMutate(who, Keys, Values) ==
    /\ RefOf(who) # 0
    /\ \E k \in Keys, v \in Values :
           /\ HasKey(heap[RefOf(who)], k) \/ Len(heap[RefOf(who)]) < MaxParams
           /\ heap' = [heap EXCEPT ![RefOf(who)] = ParamsPut(@, k, Str(v))]
           /\ last' = Call("mutate", who, "none", Str(k), NoSource)
           /\ UNCHANGED <<version, inst, cfg>>

\* delete who.params[ k ]
ParamsRemove(who, Keys) ==
    /\ RefOf(who) # 0
    /\ \E k \in Keys :
           /\ heap' = [heap EXCEPT ![RefOf(who)] = ParamsDelete(@, k)]
           /\ last' = Call("delete", who, "none", Str(k), NoSource)
           /\ UNCHANGED <<version, inst, cfg>>

\* i.assign( j )
AssignInstance(i, j) ==
    LET src == AsSource(version, inst[j], Params(j))
    IN  Commit(i, AssignObject(version, World(i), FreshRef, src), "assign", Str(<<j>>), src, cfg)

\* i = new EndpointLocation( j )
ConstructInstance(i, j) ==
    LET src == AsSource(version, inst[j], Params(j))
    IN  CommitNew(i, ConstructFromObject(version, heap, FreshRef, src), heap, "new",
                  Str(<<j>>), src, cfg)

\* Two instances and a configuration object the caller keeps.
NextShared ==
    \/ \E i \in Insts : AssignInstance(i, CHOOSE j \in Insts : j # i)
    \/ \E i \in Insts : ConstructInstance(i, CHOOSE j \in Insts : j # i)
    \/ AssignConfig("A", {cReadme}, TRUE)
    \/ ConstructConfig("B", {cSpacePath}, TRUE)
    \/ \E who \in Insts \cup {"cfg"} : ParamsMutate(who, {<<"z">>}, {<<"9">>})
    \/ \E who \in Insts \cup {"cfg"} : ParamsRemove(who, {<<"x">>})
    \/ SearchSet("A", {Str(sSearchXY)})

SpecShared == Init /\ [][NextShared]_vars

(***************************************************************************)
(* The properties                                                          *)
(***************************************************************************)
Href(i) == toString(version, inst[i], Params(i))

\* The canonical decimal string of a positive integer: digits only, the
\* first of them not 0.
CanonicalPositive(s) == s # <<>> /\ AllDigits(s) /\ s[1] # "0"

HashValid(v) == IsString(v) /\ (v.s = <<>> \/ StartsWith(v.s, "#"))

PathnameValid(v) == IsString(v) /\ StartsWith(v.s, "/")

ProtocolValid(v) == IsString(v) /\ EndsWith(v.s, ":")

PortValid(v) == IsString(v) /\ (v.s = <<>> \/ CanonicalPositive(v.s))

\* C1: after construction and any sequence of calls to the setters, the
\* derived setters and assign, including calls that throw, hash is "" or
\* starts with "#", pathname starts with "/", protocol ends with ":" and
\* port is "" or the canonical decimal string of a positive integer.
C1_AlwaysValid ==
    /\ HashValid(inst["A"].hash)
    /\ PathnameValid(inst["A"].pathname)
    /\ ProtocolValid(inst["A"].protocol)
    /\ PortValid(inst["A"].port)

\* The key=value pairs of a mapping joined by "&", in iteration order.
PairsJoined(p) == JoinWith([i \in 1..Len(p) |-> p[i].k \o <<"=">> \o ToStr(p[i].v)], <<"&">>)

OnlyOf(s, chars) == \A i \in 1..Len(s) : s[i] \in chars

UriSafeParams(p) ==
    \A i \in 1..Len(p) :
        OnlyOf(p[i].k, UriUnescaped) /\ IsString(p[i].v) /\ OnlyOf(p[i].v.s, UriUnescaped)

\* The last call constructed the instance from a configuration object that
\* gives hostname, pathname, protocol and a non-empty URI-safe params
\* mapping, and no port or hash.
BuiltFromConfig ==
    /\ last.op = "new" /\ last.err = "none" /\ last.val = Undefined
    /\ IsString(last.src.hostname) /\ IsString(last.src.pathname)
    /\ IsString(last.src.protocol)
    /\ last.src.port = Undefined /\ last.src.hash = Undefined
    /\ last.src.params # 0
    /\ heap[last.src.params] # <<>>
    /\ UriSafeParams(heap[last.src.params])

HrefOfConfig ==
    last.src.protocol.s \o <<"/", "/">> \o last.src.hostname.s \o last.src.pathname.s
        \o <<"?">> \o PairsJoined(heap[last.src.params])

\* C2, as the specification states it: an instance constructed from a
\* configuration object giving hostname h, pathname p, protocol c and a
\* non-empty mapping of URI-safe keys and values has the href
\* c + "//" + h + p + "?" + the key=value pairs joined by "&".
C2_HrefOfConfig == BuiltFromConfig => Href("A") = HrefOfConfig

UriKept == UriUnescaped \cup UriReservedHash

\* C2, amended: the same, for h, p and c of characters that encodeURI does
\* not escape, p starting with "/" and c ending with ":".
C2_HrefOfKeptConfig ==
    (/\ BuiltFromConfig
     /\ OnlyOf(last.src.hostname.s, UriKept)
     /\ OnlyOf(last.src.pathname.s, UriKept) /\ StartsWith(last.src.pathname.s, "/")
     /\ OnlyOf(last.src.protocol.s, UriKept) /\ EndsWith(last.src.protocol.s, ":"))
    => Href("A") = HrefOfConfig

sQueryReadme ==
    <<"?", "h", "a", "s", "h", "=", "o", "f", "&", "u", "r", "l", "=", "p", "a", "r", "a",
      "m", "e", "t", "e", "r", "s">>

\* The example of the documentation has been constructed and its href is
\* 'https://example.com/path/to/endpoint?hash=of&url=parameters'.
C2_ReadmeBuilt ==
    /\ BuiltFromConfig
    /\ last.src.hostname = Str(sExample) /\ last.src.pathname = Str(sEndpoint)
    /\ heap[last.src.params] = pReadme
    /\ Href("A") = sHttps \o <<"/", "/">> \o sExample \o sEndpoint \o sQueryReadme

\* C3: constructing an instance from
\* 'https://example.com:8080/a/b?x=1&y=2#frag' completes without error and
\* gives protocol 'https:', hostname 'example.com', port '8080', pathname
\* '/a/b', params {x:'1', y:'2'} and hash '#frag'.
C3_ParsesUrl ==
    (last.op = "new" /\ last.val = Str(sUrlFull))
    => /\ last.err = "none"
       /\ inst["A"].protocol = Str(sHttps)
       /\ inst["A"].hostname = Str(sExample)
       /\ inst["A"].port = Str(s8080)
       /\ inst["A"].pathname = Str(sAB)
       /\ Params("A") = pXY
       /\ inst["A"].hash = Str(sFrag)

\* C4: for an instance with a non-empty hostname, constructing a new
\* instance from its href completes and the new instance has the same href.
C4_RoundTrip ==
    [][(last'.op = "reparse" /\ Truthy(inst["A"].hostname))
       => (last'.err = "none" /\ toString(version, inst'["A"], heap'[inst'["A"].params])
                                   = Href("A"))]_vars

\* C5: for a string v, port = v succeeds if and only if v is "" or the
\* canonical decimal string of a positive integer; on success port is v,
\* and on failure a TypeError is thrown and port keeps its value.
C5_PortSetter ==
    [][(last'.op = "port" /\ IsString(last'.val))
       => IF last'.val.s = <<>> \/ CanonicalPositive(last'.val.s)
          THEN last'.err = "none" /\ inst'["A"].port = last'.val
          ELSE last'.err = "TypeError" /\ inst'["A"].port = inst["A"].port]_vars

Fields == {"hash", "hostname", "pathname", "port", "protocol"}

\* Whether the validating setter of a field takes the value.
Takes(field, v) ==
    CASE field = "hash" -> HashValid(v)
      [] field = "hostname" -> IsString(v)
      [] field = "pathname" -> PathnameValid(v)
      [] field = "port" -> PortValid(v)
      [] field = "protocol" -> ProtocolValid(v)

\* The call is assign with an object whose truthy values the setters take.
AssignsObject(call) ==
    /\ call.op = "assign" /\ call.val = Undefined
    /\ \A field \in Fields : Truthy(call.src[field]) => Takes(field, call.src[field])

\* C6: assign with an object leaves each of hash, hostname, pathname, port
\* and protocol at its value when the object's value for it is falsy, and
\* replaces it with the object's value otherwise.
C6_AssignFields ==
    [][AssignsObject(last')
       => \A field \in Fields :
              inst'["A"][field] = IF Truthy(last'.src[field]) THEN last'.src[field]
                                  ELSE inst["A"][field]]_vars

\* The params mapping of a variable of the caller: <<>> when it has none.
ParamsOf(who, in, h, c) ==
    IF who = "cfg" THEN (IF c.params = 0 THEN <<>> ELSE h[c.params])
    ELSE h[in[who].params]

\* C7: a mutation of the params of one instance or of the configuration
\* object, adding, changing or deleting a key, changes neither the params
\* nor the href of any other instance, nor the configuration object.
C7_Independent ==
    [][last'.op \in {"mutate", "delete"}
       => \A who \in (Insts \cup {"cfg"}) \ {last'.who} :
              /\ ParamsOf(who, inst', heap', cfg') = ParamsOf(who, inst, heap, cfg)
              /\ who \in Insts =>
                     toString(version, inst'[who], heap'[inst'[who].params]) = Href(who)]_vars

\* C8: assign with an object that has no truthy params and no search
\* completes without error and leaves params unchanged; with no truthy
\* params and a search string, params becomes the decoding of the search
\* string; with truthy params, params becomes the object's params.
C8_AssignParams ==
    [][AssignsObject(last')
       => /\ last'.err = "none"
          /\ heap'[inst'["A"].params] =
                 IF last'.src.params # 0 THEN heap'[last'.src.params]
                 ELSE IF last'.src.search = Undefined THEN Params("A")
                 ELSE DecodeSearch(version, last'.src.search).params]_vars

\* C9: when protocol, host, pathname and hash hold only characters that
\* encodeURI does not escape, href is protocol + "//" + host + pathname +
\* search + hash with search as the getter returns it: the escape pass
\* leaves what the encoder of the parameters wrote unchanged.
C9_EncodedOnce ==
    (/\ OnlyOf(ToStr(inst["A"].protocol), UriKept)
     /\ OnlyOf(Host(inst["A"]), UriKept)
     /\ OnlyOf(ToStr(inst["A"].pathname), UriKept)
     /\ OnlyOf(ToStr(inst["A"].hash), UriKept))
    => Href("A") = Concatenated(version, inst["A"], Params("A"))

\* The position of the first "=" of a token, beyond its end when it has none.
FirstEquals(each) == RunEnd(each, 1, {"="})

\* The entry of a token: the decoded text before the first "=" and the
\* decoded text after it (a token without "=" has no value).
EntryOf(each) ==
    [k |-> DecodeURIComponent(Slice(each, 1, FirstEquals(each) - 1)),
     v |-> IF FirstEquals(each) > Len(each) THEN Undefined
           ELSE Str(DecodeURIComponent(Slice(each, FirstEquals(each) + 1, Len(each))))]

RECURSIVE LastWins(_, _)
LastWins(tokens, result) ==
    IF tokens = <<>> THEN result
    ELSE LastWins(Tail(tokens), ParamsPut(result, EntryOf(Head(tokens)).k,
                                          EntryOf(Head(tokens)).v))

\* C10: the decoding of a search string maps each token to one entry, its
\* key the decoded text before the first "=" and its value the decoded text
\* after the first "=" up to the next "&", the last occurrence of a key
\* giving its value (for a string whose escape sequences are well formed).
C10_Decoding ==
    (/\ last.op = "search" /\ last.err = "none"
     /\ \A i \in 1..Len(SearchTokens(last.val.s)) : ~DecodeThrows(SearchTokens(last.val.s)[i]))
    => Params("A") = LastWins(SearchTokens(last.val.s), <<>>)

\* The position of the first ":" of a host, beyond its end when it has none.
ColonAt(s) == RunEnd(s, 1, {":"})

HostnamePart(s) == Slice(s, 1, ColonAt(s) - 1)

PortPart(s) == Slice(s, ColonAt(s) + 1, Len(s))

\* The host is h, or h:p with no further ":".
OneColonAtMost(s) == \A i \in (ColonAt(s) + 1)..Len(s) : s[i] # ":"

\* What port = p does to the instance o: the instance after it and the
\* error it throws.
PortAssigned(o, p) == SetPort([o |-> o, h |-> heap, err |-> "none"], Str(p))

Provided(v, cur) == IF Truthy(v) THEN v ELSE cur

\* The setters take the components of the match m with host pieces hp.
ComponentsTaken(m, hp) ==
    /\ Truthy(m.m8) => HashValid(m.m8)
    /\ Truthy(m.m5) => PathnameValid(m.m5)
    /\ Truthy(m.m1) => ProtocolValid(m.m1)
    /\ hp[2] # <<>> => CanonicalPositive(hp[2])

\* The instance o2 with params p2 is o after the components of m and hp
\* have been assigned to it.
ComponentsAssigned(o, o2, p2, m, hp) ==
    /\ o2.hash = Provided(m.m8, o.hash)
    /\ o2.pathname = Provided(m.m5, o.pathname)
    /\ o2.protocol = Provided(m.m1, o.protocol)
    /\ o2.hostname = Provided(Str(hp[1]), o.hostname)
    /\ o2.port = Provided(Str(hp[2]), o.port)
    /\ p2 = LastWins(SearchTokens(IF Truthy(m.m6) THEN m.m6.s ELSE <<>>), <<>>)

\* C12: assign( s ) and href = s with a URL string s replace hash,
\* pathname, protocol, hostname and port by the components s provides as
\* non-empty and keep the others, and replace params by the decoding of the
\* search part of s, {} when s has none.
C12_AssignUrl ==
    [][(/\ last'.op \in {"assign", "href"} /\ IsString(last'.val)
        /\ ComponentsTaken(MatchURL(last'.val.s), HostParts(MatchURL(last'.val.s))))
       => ComponentsAssigned(inst["A"], inst'["A"], heap'[inst'["A"].params],
                             MatchURL(last'.val.s), HostParts(MatchURL(last'.val.s)))]_vars

====
